---- MODULE Spec2Model ----
(***************************************************************************)
(* A model of c3bottles' DropPoint (src/c3bottles/model/drop_point.py):    *)
(* one drop point, its report and visit histories, its removal, and the    *)
(* queries that derive its state and its visit priority from them (Spec);  *)
(* its locations and the history merged from all of its records            *)
(* (SpecHistory); and the table of drop points with creation, numbering    *)
(* and the dashboard counts of src/c3bottles/lib/statistics.py (SpecStore).*)
(*                                                                         *)
(* Times are whole seconds.  A Python None is the empty sequence <<>> and  *)
(* an optional datetime t is <<t>>.  A relationship (reports, visits) is   *)
(* the bag of its rows: a query returns rows in the order its ORDER BY     *)
(* gives and, among rows that compare equal, in any order.  Floating point *)
(* numbers are exact rationals [num, den]; a score rounded to 2 decimals   *)
(* is the integer number of hundredths.                                    *)
(***************************************************************************)
EXTENDS Integers, Sequences, FiniteSets, Bags

VARIABLES
    now,        \* datetime.today()
    config,     \* c3bottles.config
    time,       \* DropPoint.time, the creation time
    removed,    \* DropPoint.removed: <<>> (null) or <<t>>
    reports,    \* DropPoint.reports: the bag of its rows
    visits,     \* DropPoint.visits: the bag of its rows
    locations,  \* DropPoint.locations: the bag of its rows
    db,         \* the table of drop points: the set of its rows
    ret         \* the outcome of the last call: [op, val]

vars == <<now, config, time, removed, reports, visits, locations, db, ret>>

----------------------------------------------------------------------------
(* Bounds of the model. *)

\* Drop points are created with numbers up to this one.
MaxNumber == 2

\* At most this many reports and visits together are recorded.
MaxEvents == 3

----------------------------------------------------------------------------
(* Report and Visit (report.py and visit.py: modelled from the spec). *)

\* Report.states: index 1 in Python (the 2nd) is the default state, the last
\* one the serviced state.
states == <<"DEFAULT", "NEW", "NO_CRATES", "SOME_BOTTLES",
            "REASONABLY_FULL", "FULL", "OVERFLOW", "EMPTY">>

\* Visit.actions: index 0 in Python (the 1st) is the emptying action.
actions == <<"EMPTIED", "ADDED_CRATE", "REMOVED_CRATE", "RELOCATED",
             "REMOVED", "NO_ACTION">>

\* Python's seq[i] for i >= 0 and seq[-1].
PyIndex(seq, i) == IF i < 0 THEN seq[Len(seq) + 1 + i] ELSE seq[i + 1]

\* Report.get_weight(): non-negative, growing with the severity of the
\* reported state; the serviced state weighs nothing.
get_weight(report) ==
    CASE report.state = "DEFAULT"         -> 1
      [] report.state = "NEW"             -> 1
      [] report.state = "NO_CRATES"       -> 2
      [] report.state = "SOME_BOTTLES"    -> 2
      [] report.state = "REASONABLY_FULL" -> 4
      [] report.state = "FULL"            -> 5
      [] report.state = "OVERFLOW"        -> 6
      [] report.state = "EMPTY"           -> 0

\* Report(dp, time=time, state=state): the row appended to dp.reports.
Report(state, t) == [time |-> t, state |-> state]

\* Visit(dp, time=time, action=action): the row appended to dp.visits.
Visit(action, t) == [time |-> t, action |-> action]

\* The elements of a tuple.
Range(seq) == {seq[i] : i \in 1..Len(seq)}

\* Location(dp, time=t, ...), a row of the table of locations.
Location(t) == [time |-> t]

----------------------------------------------------------------------------
(* Inputs. *)

\* The defaults of c3bottles.config.get("BASE_VISIT_INTERVAL", 120), in
\* minutes, and of c3bottles.config.get("DEFAULT_VISIT_PRIORITY", 1).
DefaultBaseVisitInterval == 120

DefaultVisitPriority == 1

\* The visit interval in seconds under the default configuration.
DefaultInterval == 60 * DefaultBaseVisitInterval

\* The instants at which the clock is read and records are stamped: one,
\* another a whole visit interval later, and a third one second after that.
Instants == {0, DefaultInterval, DefaultInterval + 1}

\* The states reports are submitted with: the default state, a severe one
\* and the serviced one.
ReportStates == {PyIndex(states, 1), "REASONABLY_FULL", PyIndex(states, -1)}

\* The actions visits are performed with: emptying and a non-emptying one.
VisitActions == {PyIndex(actions, 0), "NO_ACTION"}

\* The configurations: the defaults, and a base priority of 0.
Configs ==
    {[DEFAULT_VISIT_PRIORITY |-> p,
      BASE_VISIT_INTERVAL |-> DefaultBaseVisitInterval]
     : p \in {DefaultVisitPriority, 0}}

\* Configurations with a visit interval of zero or less.
NonPositiveConfigs ==
    {[DEFAULT_VISIT_PRIORITY |-> DefaultVisitPriority,
      BASE_VISIT_INTERVAL |-> b]
     : b \in {0, -DefaultBaseVisitInterval}}

\* The time argument of remove(): None, a datetime, or another object that
\* is truthy ("tomorrow") or falsy ("").
TimeArgs == {[kind |-> "None", t |-> 0]}
            \cup {[kind |-> "datetime", t |-> t] : t \in Instants}
            \cup {[kind |-> "str", t |-> 1], [kind |-> "str", t |-> 0]}

\* The number argument of DropPoint(): an int, or a string that is not the
\* literal of one.
NumberArgs == {[kind |-> "int", n |-> n] : n \in 0..MaxNumber}
              \cup {[kind |-> "str", n |-> 0]}

\* The description, lat, lng and level given for the initial location: valid,
\* or with a lat that is a number out of range, or with a lat that is not the
\* literal of a number.
LocationArgs == {"valid", "out_of_range", "not_a_number"}

\* Python's truth value of a time argument.
Truthy(arg) == arg.kind = "datetime" \/ (arg.kind = "str" /\ arg.t # 0)

isinstance_datetime(arg) == arg.kind = "datetime"

----------------------------------------------------------------------------
(* Queries of the histories. *)

\* .filter(Report.time > t): the rows later than t.
FilterTimeAfter(rows, t) ==
    [r \in {x \in BagToSet(rows) : x.time > t} |-> rows[r]]

\* .order_by(time.desc()).first(): the row of greatest time, or None.
\* Among rows of equal time the database's order is unspecified: every one
\* of them is a possible result.
First(rows) ==
    IF rows = EmptyBag THEN {<<>>}
    ELSE {<<r>> : r \in {x \in BagToSet(rows) :
                          \A y \in BagToSet(rows) : y.time <= x.time}}

\* get_last_report()
get_last_report == First(reports)

\* get_last_visit()
get_last_visit == First(visits)

\* get_last_state() looking at the last visit only, not at every visit
\* since the last report.
get_last_state_LastVisitOnly(last_report, last_visit) ==
    IF /\ last_report # <<>>
       /\ last_visit # <<>>
       /\ last_visit[1].time > last_report[1].time
    THEN IF last_visit[1].action = PyIndex(actions, 0)
         THEN PyIndex(states, -1)
         ELSE last_report[1].state
    ELSE IF last_report # <<>>
    THEN last_report[1].state
    ELSE IF last_visit # <<>> /\ last_visit[1].action = PyIndex(actions, 0)
    THEN PyIndex(states, -1)
    ELSE PyIndex(states, 1)

\* get_last_state() taking every visit since the last report for an
\* emptying one.
get_last_state_AnyVisit(last_report, last_visit) ==
    IF /\ last_report # <<>>
       /\ last_visit # <<>>
       /\ last_visit[1].time > last_report[1].time
    THEN PyIndex(states, -1)
    ELSE IF last_report # <<>>
    THEN last_report[1].state
    ELSE IF last_visit # <<>> /\ last_visit[1].action = PyIndex(actions, 0)
    THEN PyIndex(states, -1)
    ELSE PyIndex(states, 1)

\* get_last_state() comparing the times with >= instead of >.
get_last_state_Geq(last_report, last_visit) ==
    IF /\ last_report # <<>>
       /\ last_visit # <<>>
       /\ last_visit[1].time >= last_report[1].time
    THEN IF \E v \in BagToSet(visits) :
                /\ v.time >= last_report[1].time
                /\ v.action = PyIndex(actions, 0)
         THEN PyIndex(states, -1)
         ELSE last_report[1].state
    ELSE IF last_report # <<>>
    THEN last_report[1].state
    ELSE IF last_visit # <<>> /\ last_visit[1].action = PyIndex(actions, 0)
    THEN PyIndex(states, -1)
    ELSE PyIndex(states, 1)

\* get_last_state() looking, without reports, for an emptying visit among
\* all visits instead of at the last one.
get_last_state_AnyEmptied(last_report, last_visit) ==
    IF /\ last_report # <<>>
       /\ last_visit # <<>>
       /\ last_visit[1].time > last_report[1].time
    THEN IF \E v \in BagToSet(visits) :
                /\ v.time > last_report[1].time
                /\ v.action = PyIndex(actions, 0)
         THEN PyIndex(states, -1)
         ELSE last_report[1].state
    ELSE IF last_report # <<>>
    THEN last_report[1].state
    ELSE IF \E v \in BagToSet(visits) : v.action = PyIndex(actions, 0)
    THEN PyIndex(states, -1)
    ELSE PyIndex(states, 1)

\* get_last_state() with the rows its two queries returned.
get_last_state(last_report, last_visit) ==
    IF /\ last_report # <<>>
       /\ last_visit # <<>>
       /\ last_visit[1].time > last_report[1].time
    THEN IF \E v \in BagToSet(visits) :
                /\ v.time > last_report[1].time
                /\ v.action = PyIndex(actions, 0)
         THEN PyIndex(states, -1)
         ELSE last_report[1].state
    ELSE IF last_report # <<>>
    THEN last_report[1].state
    ELSE IF last_visit # <<>> /\ last_visit[1].action = PyIndex(actions, 0)
    THEN PyIndex(states, -1)
    ELSE PyIndex(states, 1)

\* .order_by(time.desc()).all(): the rows by descending time; rows of equal
\* time come in any order.
RECURSIVE OrderByTimeDesc(_)
OrderByTimeDesc(rows) ==
    IF rows = EmptyBag THEN {<<>>}
    ELSE LET top == {x \in BagToSet(rows) :
                       \A y \in BagToSet(rows) : y.time <= x.time}
         IN  UNION {{<<r>> \o s : s \in OrderByTimeDesc(rows (-) SetToBag({r}))}
                    : r \in top}

\* get_total_report_count()
get_total_report_count == BagCardinality(reports)

\* get_new_report_count() that counts every report, visited or not.
get_new_report_count_Total(last_visit) == get_total_report_count

\* get_new_report_count() with the row get_last_visit() returned.
get_new_report_count(last_visit) ==
    IF last_visit # <<>>
    THEN BagCardinality(FilterTimeAfter(reports, last_visit[1].time))
    ELSE get_total_report_count

\* get_new_reports() that returns every report, visited or not.
get_new_reports_All(last_visit) == OrderByTimeDesc(reports)

\* get_new_reports() that keeps the reports of the last visit's very time.
get_new_reports_Geq(last_visit) ==
    IF last_visit # <<>>
    THEN OrderByTimeDesc(FilterTimeAfter(reports, last_visit[1].time - 1))
    ELSE OrderByTimeDesc(reports)

\* get_new_reports() with the row get_last_visit() returned: the lists the
\* query can return.
get_new_reports(last_visit) ==
    IF last_visit # <<>>
    THEN OrderByTimeDesc(FilterTimeAfter(reports, last_visit[1].time))
    ELSE OrderByTimeDesc(reports)

----------------------------------------------------------------------------
(* The priority. *)

Rat(n, d) == [num |-> n, den |-> d]

\* An exception in place of a returned value.
Raise(exc) == [exc |-> exc]

Raised(x) == "exc" \in DOMAIN x

\* a + b and a / k of rationals (Python 3's true division).
RatAdd(a, b) == Rat(a.num * b.den + b.num * a.den, a.den * b.den)

RatDiv(a, k) == Rat(a.num, a.den * k)

RatEq(a, b) == a.num * b.den = b.num * a.den

Pow2(i) == 2 ^ i

\* round(n / d, 2) in hundredths, for d # 0: Python 3 rounds to the nearest
\* hundredth, and a tie to the even one. The sign is carried by the numerator.
Round2(n, d) ==
    LET m == IF d < 0 THEN -n ELSE n
        e == IF d < 0 THEN -d ELSE d
        q == (100 * m) \div e
        r == (100 * m) % e
    IN  IF 2 * r < e THEN q
        ELSE IF 2 * r > e THEN q + 1
        ELSE IF q % 2 = 0 THEN q ELSE q + 1

\* get_visit_interval()
get_visit_interval == 60 * config.BASE_VISIT_INTERVAL

\* The loop with Python 2's integer division of the weight.
RECURSIVE PriorityLoop_FloorDiv(_, _, _)
PriorityLoop_FloorDiv(new_reports, i, priority) ==
    IF i >= Len(new_reports) THEN priority
    ELSE PriorityLoop_FloorDiv(new_reports, i + 1,
             RatAdd(priority,
                    Rat(get_weight(new_reports[i + 1]) \div Pow2(i), 1)))

\* The loop without the decay: every report adds its full weight.
RECURSIVE PriorityLoop_NoDecay(_, _, _)
PriorityLoop_NoDecay(new_reports, i, priority) ==
    IF i >= Len(new_reports) THEN priority
    ELSE PriorityLoop_NoDecay(new_reports, i + 1,
             RatAdd(priority, Rat(get_weight(new_reports[i + 1]), 1)))

\* The loop of get_priority_factor(), from Python's index i on:
\* priority += report.get_weight() / 2**i
RECURSIVE PriorityLoop(_, _, _)
PriorityLoop(new_reports, i, priority) ==
    IF i >= Len(new_reports) THEN priority
    ELSE PriorityLoop(new_reports, i + 1,
             RatAdd(priority,
                    RatDiv(Rat(get_weight(new_reports[i + 1]), 1), Pow2(i))))

\* get_priority_factor() without the check for a removed drop point.
get_priority_factor_NoRemovedCheck(new_reports) ==
    RatDiv(PriorityLoop(new_reports, 0,
                        Rat(config.DEFAULT_VISIT_PRIORITY, 1)),
           get_visit_interval)

\* get_priority_factor() with the list get_new_reports() returned.
get_priority_factor(new_reports) ==
    IF removed # <<>> THEN Rat(0, 1)
    ELSE IF get_visit_interval = 0 THEN Raise("ZeroDivisionError")
    ELSE RatDiv(PriorityLoop(new_reports, 0,
                             Rat(config.DEFAULT_VISIT_PRIORITY, 1)),
                get_visit_interval)

\* get_priority_base_time() that always takes the creation time.
get_priority_base_time_Creation(last_visit) == time

\* get_priority_base_time() with the row get_last_visit() returned.
get_priority_base_time(last_visit) ==
    IF last_visit # <<>> THEN last_visit[1].time ELSE time

\* get_priority() with the operands of the time difference swapped.
get_priority_Swapped(factor, base_time) ==
    Round2(factor.num * (base_time - now), factor.den)

\* get_priority() with the results of its two calls, in hundredths.
get_priority(factor, base_time) ==
    Round2(factor.num * (now - base_time), factor.den)

----------------------------------------------------------------------------
(* The history. *)

\* .all() of a query without ORDER BY: the rows in any order.
RECURSIVE AllOrders(_)
AllOrders(rows) ==
    IF rows = EmptyBag THEN {<<>>}
    ELSE UNION {{<<r>> \o s : s \in AllOrders(rows (-) SetToBag({r}))}
                : r \in BagToSet(rows)}

\* The greatest element of a set of times.
Max(S) == CHOOSE x \in S : \A y \in S : y <= x

Reverse(s) == [i \in 1..Len(s) |-> s[Len(s) + 1 - i]]

\* The relationship ordered by Location.time: the rows by ascending time;
\* rows of equal time come in any order.
OrderByTimeAsc(rows) == {Reverse(s) : s \in OrderByTimeDesc(rows)}

\* The dict {"time": t, kind: row} appended to the history.
Entry(kind, t, row) == [time |-> t, kind |-> kind, row |-> row]

\* sorted(history, key=time) followed by a reversal of the whole list.
RECURSIVE sorted_AscendingReversed(_)
sorted_AscendingReversed(history) ==
    IF history = <<>> THEN <<>>
    ELSE LET m == Max({history[i].time : i \in 1..Len(history)})
         IN  Reverse(SelectSeq(history, LAMBDA e : e.time = m))
             \o sorted_AscendingReversed(
                    SelectSeq(history, LAMBDA e : e.time # m))

\* sorted(history, key=lambda k: k["time"], reverse=True): by descending
\* time; the sort is stable, so entries of equal time keep the order in
\* which they were appended.
RECURSIVE sorted(_)
sorted(history) ==
    IF history = <<>> THEN <<>>
    ELSE LET m == Max({history[i].time : i \in 1..Len(history)})
         IN  SelectSeq(history, LAMBDA e : e.time = m)
             \o sorted(SelectSeq(history, LAMBDA e : e.time # m))

\* get_history() that leaves out the entry of the removal.
get_history_NoRemoval(all_visits, all_reports, all_locations) ==
    sorted(
        [i \in 1..Len(all_visits)
            |-> Entry("visit", all_visits[i].time, all_visits[i])]
        \o [i \in 1..Len(all_reports)
              |-> Entry("report", all_reports[i].time, all_reports[i])]
        \o [i \in 1..Len(all_locations)
              |-> Entry("location", all_locations[i].time, all_locations[i])]
        \o <<Entry("drop_point", time, "self")>>)

\* get_history() with the lists its three relationships returned.
get_history(all_visits, all_reports, all_locations) ==
    sorted(
        [i \in 1..Len(all_visits)
            |-> Entry("visit", all_visits[i].time, all_visits[i])]
        \o [i \in 1..Len(all_reports)
              |-> Entry("report", all_reports[i].time, all_reports[i])]
        \o [i \in 1..Len(all_locations)
              |-> Entry("location", all_locations[i].time, all_locations[i])]
        \o <<Entry("drop_point", time, "self")>>
        \o IF removed # <<>> THEN <<Entry("removed", removed[1], TRUE)>>
                              ELSE <<>>)

----------------------------------------------------------------------------
(* The table of drop points. *)

\* One dict of the errors a constructor collects: {field: message}.
Err(field, msg) == [field |-> field, msg |-> msg]

\* A row of the table as db.session.add(self) stores it.
Row(number, t) == [number |-> number, time |-> t, removed |-> <<>>]

\* db.session.query(DropPoint).get(number): the rows with that number.
query_get(number) == {row \in db : row.number = number}

\* The check of the number without the look-up of an existing drop point.
number_errors_NoLookup(number) ==
    IF number.kind # "int"
    THEN <<Err("number", "Drop point number is not a number.")>>
    ELSE IF number.n < 1
         THEN <<Err("number", "Drop point number is not positive.")>>
         ELSE <<>>

\* DropPoint.__init__: the errors of the number.
number_errors(number) ==
    IF number.kind # "int"
    THEN <<Err("number", "Drop point number is not a number.")>>
    ELSE (IF number.n < 1
          THEN <<Err("number", "Drop point number is not positive.")>>
          ELSE <<>>)
         \o (IF query_get(number.n) # {}
             THEN <<Err("number", "That drop point already exists.")>>
             ELSE <<>>)

\* DropPoint.__init__: the errors of the creation time.
time_errors(arg) ==
    (IF Truthy(arg) /\ ~isinstance_datetime(arg)
     THEN <<Err("DropPoint", "Creation time not a datetime object.")>>
     ELSE <<>>)
    \o (IF isinstance_datetime(arg) /\ arg.t > now
        THEN <<Err("DropPoint", "Creation time in the future.")>>
        ELSE <<>>)

\* The args of the ValueError that Location(...) raises, none if it is valid.
Location_errors(loc) ==
    IF loc = "valid" THEN <<>>
    ELSE <<Err("lat", "Latitude is not valid.")>>

\* DropPoint.__init__: the list errors when the constructor reaches
\* "if errors".
init_errors(number, arg, loc) ==
    number_errors(number) \o time_errors(arg) \o Location_errors(loc)

\* DropPoint.query.all(): the rows in any order.
RECURSIVE query_all(_)
query_all(rows) ==
    IF rows = {} THEN {<<>>}
    ELSE UNION {{<<r>> \o s : s \in query_all(rows \ {r})} : r \in rows}

\* DropPoint.get_next_free_number()
get_next_free_number ==
    IF db # {} THEN Max({row.number : row \in db}) + 1 ELSE 1

\* Statistics.drop_point_count
drop_point_count == Cardinality({row \in db : row.removed = <<>>})

\* The loop of drop_points_by_state over the rows dps, from the i-th on: a
\* removed row is skipped; for another row, dp.last_state raises
\* AttributeError, as DropPoint has no such attribute, and the except clause
\* ends the loop with the counts as they are.
RECURSIVE by_state_loop(_, _, _)
by_state_loop(dps, i, counts) ==
    IF i > Len(dps) THEN counts
    ELSE IF dps[i].removed # <<>> THEN by_state_loop(dps, i + 1, counts)
    ELSE counts

\* Statistics.drop_points_by_state with the rows the query returned.
drop_points_by_state(dps) ==
    by_state_loop(dps, 1, [state \in Range(states) |-> 0])

----------------------------------------------------------------------------
(* The operations. *)

Result(op, val) == [op |-> op, val |-> val]

Init ==
    /\ now \in Instants
    /\ config \in Configs
    /\ time \in {t \in Instants : t <= now}
    /\ removed = <<>>
    /\ reports = EmptyBag
    /\ visits = EmptyBag
    /\ locations = SetToBag({Location(time)})
    /\ db = {}
    /\ ret = Result("__init__", "None")

\* The clock advances.
Tick ==
    /\ \E t \in Instants : t > now /\ now' = t
    /\ UNCHANGED <<config, time, removed, reports, visits, locations, db, ret>>

\* dp.report(state, time)
report(state, t) ==
    /\ BagCardinality(reports) + BagCardinality(visits)
       + BagCardinality(locations) - 1 < MaxEvents
    /\ t <= now
    /\ reports' = reports (+) SetToBag({Report(state, t)})
    /\ ret' = Result("report", "None")
    /\ UNCHANGED <<now, config, time, removed, visits, locations, db>>

\* dp.visit(action, time)
visit(action, t) ==
    /\ BagCardinality(reports) + BagCardinality(visits)
       + BagCardinality(locations) - 1 < MaxEvents
    /\ t <= now
    /\ visits' = visits (+) SetToBag({Visit(action, t)})
    /\ ret' = Result("visit", "None")
    /\ UNCHANGED <<now, config, time, removed, reports, locations, db>>

\* remove() without the check for an earlier removal.
remove_NoRemovedCheck(arg) ==
    /\ IF Truthy(arg) /\ ~isinstance_datetime(arg)
       THEN /\ ret' = Result("remove", "TypeError")
            /\ UNCHANGED removed
       ELSE IF Truthy(arg) /\ arg.t > now
       THEN /\ ret' = Result("remove", "ValueError")
            /\ UNCHANGED removed
       ELSE /\ removed' = IF Truthy(arg) THEN <<arg.t>> ELSE <<now>>
            /\ ret' = Result("remove", "None")
    /\ UNCHANGED <<now, config, time, reports, visits, locations, db>>

\* dp.remove(time)
remove(arg) ==
    /\ IF removed # <<>>
       THEN /\ ret' = Result("remove", "RuntimeError")
            /\ UNCHANGED removed
       ELSE IF Truthy(arg) /\ ~isinstance_datetime(arg)
       THEN /\ ret' = Result("remove", "TypeError")
            /\ UNCHANGED removed
       ELSE IF Truthy(arg) /\ arg.t > now
       THEN /\ ret' = Result("remove", "ValueError")
            /\ UNCHANGED removed
       ELSE /\ removed' = IF Truthy(arg) THEN <<arg.t>> ELSE <<now>>
            /\ ret' = Result("remove", "None")
    /\ UNCHANGED <<now, config, time, reports, visits, locations, db>>

\* dp.get_last_state()
GetLastState ==
    /\ \E last_report \in get_last_report, last_visit \in get_last_visit :
          ret' = Result("get_last_state",
                        get_last_state(last_report, last_visit))
    /\ UNCHANGED <<now, config, time, removed, reports, visits, locations, db>>

\* dp.get_new_report_count()
GetNewReportCount ==
    /\ \E last_visit \in get_last_visit :
          ret' = Result("get_new_report_count",
                        get_new_report_count(last_visit))
    /\ UNCHANGED <<now, config, time, removed, reports, visits, locations, db>>

\* dp.get_new_reports()
GetNewReports ==
    /\ \E last_visit \in get_last_visit :
          \E new_reports \in get_new_reports(last_visit) :
             ret' = Result("get_new_reports", new_reports)
    /\ UNCHANGED <<now, config, time, removed, reports, visits, locations, db>>

\* dp.get_priority_factor()
GetPriorityFactor ==
    /\ \E last_visit \in get_last_visit :
          \E new_reports \in get_new_reports(last_visit) :
             LET factor == get_priority_factor(new_reports)
             IN  ret' = IF Raised(factor)
                        THEN [op |-> "get_priority_factor", exc |-> factor.exc]
                        ELSE Result("get_priority_factor", factor)
    /\ UNCHANGED <<now, config, time, removed, reports, visits, locations, db>>

\* dp.get_priority_base_time()
GetPriorityBaseTime ==
    /\ \E last_visit \in get_last_visit :
          ret' = Result("get_priority_base_time",
                        get_priority_base_time(last_visit))
    /\ UNCHANGED <<now, config, time, removed, reports, visits, locations, db>>

\* dp.get_priority(): the result carries the time of the call.
GetPriority ==
    /\ \E last_visit \in get_last_visit :
          \E new_reports \in get_new_reports(last_visit) :
             LET factor == get_priority_factor(new_reports)
             IN  ret' = IF Raised(factor)
                        THEN [op |-> "get_priority", exc |-> factor.exc,
                              at |-> now]
                        ELSE [op |-> "get_priority",
                              val |-> get_priority(
                                         factor,
                                         get_priority_base_time(last_visit)),
                              at |-> now]
    /\ UNCHANGED <<now, config, time, removed, reports, visits, locations, db>>

Next ==
    \/ Tick
    \/ \E state \in ReportStates, t \in Instants : report(state, t)
    \/ \E action \in VisitActions, t \in Instants : visit(action, t)
    \/ \E arg \in TimeArgs : remove(arg)
    \/ GetLastState
    \/ GetNewReportCount
    \/ GetNewReports
    \/ GetPriorityFactor
    \/ GetPriorityBaseTime
    \/ GetPriority

Spec == Init /\ [][Next]_vars

\* The same drop point under a configuration whose BASE_VISIT_INTERVAL is not
\* positive.
InitConfig ==
    /\ now \in Instants
    /\ config \in NonPositiveConfigs
    /\ time \in {t \in Instants : t <= now}
    /\ removed = <<>>
    /\ reports = EmptyBag
    /\ visits = EmptyBag
    /\ locations = SetToBag({Location(time)})
    /\ db = {}
    /\ ret = Result("__init__", "None")

SpecConfig == InitConfig /\ [][Next]_vars

\* Location(dp, time=t, ...): the drop point is given a new location.
Relocate(t) ==
    /\ BagCardinality(reports) + BagCardinality(visits)
       + BagCardinality(locations) - 1 < MaxEvents
    /\ t <= now
    /\ locations' = locations (+) SetToBag({Location(t)})
    /\ ret' = Result("Location", "None")
    /\ UNCHANGED <<now, config, time, removed, reports, visits, db>>

\* dp.get_history()
GetHistory ==
    /\ \E all_visits \in AllOrders(visits) :
          \E all_reports \in AllOrders(reports) :
             \E all_locations \in OrderByTimeAsc(locations) :
                ret' = Result("get_history",
                              get_history(all_visits, all_reports,
                                          all_locations))
    /\ UNCHANGED <<now, config, time, removed, reports, visits, locations, db>>

\* The drop point with its locations and its history.
NextHistory ==
    \/ Tick
    \/ \E state \in ReportStates, t \in Instants : report(state, t)
    \/ \E action \in VisitActions, t \in Instants : visit(action, t)
    \/ \E t \in Instants : Relocate(t)
    \/ \E arg \in TimeArgs : remove(arg)
    \/ GetHistory

SpecHistory == Init /\ [][NextHistory]_vars

\* A call that raised exc with the given args.
Failed(op, exc, args) == [op |-> op, exc |-> exc, args |-> args]

\* DropPoint(number, description, lat, lng, level, time)
DropPoint(number, arg, loc) ==
    /\ LET errors == init_errors(number, arg, loc)
       IN  IF errors # <<>>
           THEN /\ ret' = Failed("DropPoint", "ValueError", errors)
                /\ UNCHANGED db
           ELSE /\ db' = db \cup {Row(number.n,
                                      IF Truthy(arg) THEN arg.t ELSE now)}
                /\ ret' = Result("DropPoint", "None")
    /\ UNCHANGED <<now, config, time, removed, reports, visits, locations>>

\* create_dp() for a POST request with the given form fields: int() and
\* float() convert the fields before the try block, and DropPoint() is called
\* with the keyword category_id, which its __init__ does not take.
create_dp(number, loc) ==
    /\ IF number.kind # "int"
       THEN ret' = Failed("create_dp", "ValueError",
                          <<Err("", "invalid literal for int()")>>)
       ELSE IF loc = "not_a_number"
       THEN ret' = Failed("create_dp", "ValueError",
                          <<Err("", "could not convert string to float")>>)
       ELSE ret' = Failed("create_dp", "TypeError",
                          <<Err("", "unexpected keyword argument")>>)
    /\ UNCHANGED <<now, config, time, removed, reports, visits, locations, db>>

\* DropPoint.query.get(number).remove(time), for a stored drop point.
remove_stored(number, arg) ==
    /\ \E dp \in query_get(number) :
          IF dp.removed # <<>>
          THEN /\ ret' = Result("remove", "RuntimeError")
               /\ UNCHANGED db
          ELSE IF Truthy(arg) /\ ~isinstance_datetime(arg)
          THEN /\ ret' = Result("remove", "TypeError")
               /\ UNCHANGED db
          ELSE IF Truthy(arg) /\ arg.t > now
          THEN /\ ret' = Result("remove", "ValueError")
               /\ UNCHANGED db
          ELSE /\ db' = (db \ {dp})
                        \cup {[dp EXCEPT !.removed =
                                   IF Truthy(arg) THEN <<arg.t>> ELSE <<now>>]}
               /\ ret' = Result("remove", "None")
    /\ UNCHANGED <<now, config, time, removed, reports, visits, locations>>

\* DropPoint.get_next_free_number()
GetNextFreeNumber ==
    /\ ret' = Result("get_next_free_number", get_next_free_number)
    /\ UNCHANGED <<now, config, time, removed, reports, visits, locations, db>>

\* Statistics().drop_point_count
DropPointCount ==
    /\ ret' = Result("drop_point_count", drop_point_count)
    /\ UNCHANGED <<now, config, time, removed, reports, visits, locations, db>>

\* Statistics().drop_points_by_state
DropPointsByState ==
    /\ \E dps \in query_all(db) :
          ret' = Result("drop_points_by_state", drop_points_by_state(dps))
    /\ UNCHANGED <<now, config, time, removed, reports, visits, locations, db>>

\* The table of drop points, empty at first. No drop point is followed on its
\* own here: the variables of the single drop point keep their first values.
InitStore ==
    /\ now \in Instants
    /\ config = [DEFAULT_VISIT_PRIORITY |-> DefaultVisitPriority,
                 BASE_VISIT_INTERVAL |-> DefaultBaseVisitInterval]
    /\ time = now
    /\ removed = <<>>
    /\ reports = EmptyBag
    /\ visits = EmptyBag
    /\ locations = SetToBag({Location(time)})
    /\ db = {}
    /\ ret = Result("__init__", "None")

NextStore ==
    \/ Tick
    \/ \E number \in NumberArgs, arg \in TimeArgs, loc \in LocationArgs :
          DropPoint(number, arg, loc)
    \/ \E number \in NumberArgs, loc \in LocationArgs : create_dp(number, loc)
    \/ \E number \in 1..MaxNumber, arg \in TimeArgs :
          remove_stored(number, arg)
    \/ GetNextFreeNumber
    \/ DropPointCount
    \/ DropPointsByState

SpecStore == InitStore /\ [][NextStore]_vars

----------------------------------------------------------------------------
(* What the claims speak of. *)

EMPTY_ACTION == PyIndex(actions, 0)

SERVICED == PyIndex(states, -1)

DEFAULT == PyIndex(states, 1)

MaxReportTime == Max({r.time : r \in BagToSet(reports)})

MaxVisitTime == Max({v.time : v \in BagToSet(visits)})

\* The states of the most recent reports (several when their times tie).
LastReportStates ==
    {r.state : r \in {x \in BagToSet(reports) : x.time = MaxReportTime}}

\* The most recent visits (several when their times tie).
LastVisits == {v \in BagToSet(visits) : v.time = MaxVisitTime}

----------------------------------------------------------------------------
(* The status resolver. *)

\* C1: with at least one report, if some visit later than the most recent
\* report has the emptying action, get_last_state returns the serviced
\* state, whatever the report said and whatever other visits there are.
C1_EmptyingOverride ==
    ( /\ ret.op = "get_last_state"
      /\ reports # EmptyBag
      /\ \E v \in BagToSet(visits) :
            v.time > MaxReportTime /\ v.action = EMPTY_ACTION )
    => ret.val = SERVICED

\* A severe report, then an emptying visit, then a later non-emptying visit:
\* the state is the serviced one.
C1_Witness ==
    /\ ret = Result("get_last_state", SERVICED)
    /\ LastReportStates = {"REASONABLY_FULL"}
    /\ \E v, w \in BagToSet(visits) :
          /\ v.time > MaxReportTime /\ v.action = EMPTY_ACTION
          /\ w.time > v.time /\ w.action # EMPTY_ACTION

\* C2: with at least one report, if every visit later than the most recent
\* report has a non-emptying action, get_last_state returns the most recent
\* report's state.
C2_NonEmptyingKeepsStatus ==
    ( /\ ret.op = "get_last_state"
      /\ reports # EmptyBag
      /\ \A v \in BagToSet(visits) :
            v.time > MaxReportTime => v.action # EMPTY_ACTION )
    => ret.val \in LastReportStates

\* A severe report and a later non-emptying visit: the state is the
\* reported one.
C2_Witness ==
    /\ ret = Result("get_last_state", "REASONABLY_FULL")
    /\ LastReportStates = {"REASONABLY_FULL"}
    /\ \E v \in BagToSet(visits) :
          v.time > MaxReportTime /\ v.action # EMPTY_ACTION

\* C3: when a report and a visit exist and the most recent report is not
\* older than the most recent visit (equal times included), get_last_state
\* returns the most recent report's state, emptying visits or not.
C3_ReportOverrides ==
    ( /\ ret.op = "get_last_state"
      /\ reports # EmptyBag
      /\ visits # EmptyBag
      /\ MaxReportTime >= MaxVisitTime )
    => ret.val \in LastReportStates

\* A severe report and an emptying visit of the very same time.
C3_Witness ==
    /\ ret = Result("get_last_state", "REASONABLY_FULL")
    /\ LastReportStates = {"REASONABLY_FULL"}
    /\ \E v \in LastVisits :
          v.time = MaxReportTime /\ v.action = EMPTY_ACTION

----------------------------------------------------------------------------
(* The priority engine. *)

\* The reports later than the most recent visit; all of them without a visit.
Unresolved ==
    IF visits = EmptyBag THEN BagToSet(reports)
    ELSE {r \in BagToSet(reports) : r.time > MaxVisitTime}

\* The base time of the priority: the most recent visit's time, or the
\* creation time without a visit.
BaseTime == IF visits = EmptyBag THEN time ELSE MaxVisitTime

\* The factors get_priority_factor can return: one for each order in which
\* get_new_reports can return the unresolved reports.
Factors ==
    UNION {{get_priority_factor(nr) : nr \in get_new_reports(lv)}
           : lv \in get_last_visit}

Abs(x) == IF x < 0 THEN -x ELSE x

\* How often row r occurs in the list s.
Occurrences(s, r) == Cardinality({i \in 1..Len(s) : s[i] = r})

\* C5: while the removed time is set, get_priority_factor returns 0 and
\* get_priority returns 0, whatever was recorded and whatever the time.
C5_RemovedOverride ==
    removed # <<>>
    => /\ ret.op = "get_priority_factor" => ret.val.num = 0
       /\ ret.op = "get_priority" => ret.val = 0

\* A removed drop point with a report later than its removal, asked for its
\* priority a visit interval after its creation.
C5_Witness ==
    /\ removed # <<>>
    /\ ret.op = "get_priority" /\ ret.val = 0
    /\ ret.at > BaseTime + 1
    /\ config.DEFAULT_VISIT_PRIORITY > 0
    /\ \E r \in BagToSet(reports) : r.time > removed[1] /\ get_weight(r) > 0

\* C6 as stated: for an active drop point with an untouched history and
\* DEFAULT_VISIT_PRIORITY > 0, of two get_priority calls at or after the
\* base time the later one returns the strictly greater (rounded) score.
C6_StrictAging ==
    [][ ( /\ ret.op = "get_priority" /\ ret'.op = "get_priority"
          /\ removed = <<>>
          /\ config.DEFAULT_VISIT_PRIORITY > 0
          /\ BaseTime <= ret.at /\ ret.at < ret'.at )
        => ret'.val > ret.val ]_vars

\* C6 as amended: under the same conditions, and with no two unresolved
\* reports of different weight sharing a time, the later call never returns
\* the smaller score, and it returns a strictly greater one whenever the
\* unrounded score factor * elapsed has grown by more than 0.01.
C6_Aging ==
    [][ ( /\ ret.op = "get_priority" /\ ret'.op = "get_priority"
          /\ removed = <<>>
          /\ config.DEFAULT_VISIT_PRIORITY > 0
          /\ BaseTime <= ret.at /\ ret.at < ret'.at
          /\ \A r1, r2 \in Unresolved :
                r1.time = r2.time => get_weight(r1) = get_weight(r2) )
        => /\ ret'.val >= ret.val
           /\ \A f \in Factors :
                 100 * f.num * (ret'.at - ret.at) > f.den
                 => ret'.val > ret.val ]_vars

\* A drop point without reports and visits asked for its priority one
\* second after its creation: the score is still 0.
C6_Witness ==
    /\ ret.op = "get_priority" /\ ret.val = 0
    /\ removed = <<>>
    /\ config.DEFAULT_VISIT_PRIORITY > 0
    /\ reports = EmptyBag /\ visits = EmptyBag
    /\ ret.at = time + 1

\* C7: get_new_reports returns exactly the reports later than the most
\* recent visit (all reports without a visit), the most recent first, and
\* get_new_report_count returns the length of that list.
C7_NewReports ==
    /\ ret.op = "get_new_reports"
       => /\ \A r \in BagToSet(reports) \cup Range(ret.val) :
                Occurrences(ret.val, r)
                = IF r \in Unresolved THEN CopiesIn(r, reports) ELSE 0
          /\ \A i, j \in 1..Len(ret.val) :
                i < j => ret.val[i].time >= ret.val[j].time
    /\ ret.op = "get_new_report_count"
       => \A lv \in get_last_visit :
             \A nr \in get_new_reports(lv) : ret.val = Len(nr)

\* A report of the most recent visit's very time and a later one: only the
\* later one is returned.
C7_Witness ==
    /\ ret.op = "get_new_reports" /\ Len(ret.val) = 1
    /\ visits # EmptyBag
    /\ \E r \in BagToSet(reports) : r.time = MaxVisitTime
    /\ ret.val[1].time > MaxVisitTime

\* The sum over the ranks below k of weight * 2^(Len - rank).
RECURSIVE ScaledWeights(_, _)
ScaledWeights(nr, k) ==
    IF k = 0 THEN 0
    ELSE ScaledWeights(nr, k - 1)
         + get_weight(nr[k]) * 2 ^ (Len(nr) - (k - 1))

\* (B + sum of weight_i / 2^i) / visit_interval_seconds for the ranking nr.
Backlog(nr) ==
    Rat(config.DEFAULT_VISIT_PRIORITY * 2 ^ Len(nr)
        + ScaledWeights(nr, Len(nr)),
        2 ^ Len(nr) * 60 * config.BASE_VISIT_INTERVAL)

\* C8: for an active drop point get_priority_factor is exactly
\* (B + sum of weight_i / 2^i) / visit_interval_seconds, i the rank of the
\* unresolved report counted from the newest.
C8_DecayedBacklog ==
    ( ret.op = "get_priority_factor" /\ removed = <<>> )
    => \E lv \in get_last_visit :
          \E nr \in get_new_reports(lv) : RatEq(ret.val, Backlog(nr))

\* Two unresolved reports of weight 1 at ranks 0 and 1 and B = 1: the
\* factor is (1 + 1 + 1/2) / 7200.
C8_Witness ==
    /\ ret.op = "get_priority_factor" /\ removed = <<>>
    /\ config.DEFAULT_VISIT_PRIORITY = 1
    /\ Cardinality(Unresolved) = 2
    /\ \A r \in Unresolved : get_weight(r) = 1 /\ CopiesIn(r, reports) = 1
    /\ RatEq(ret.val, Rat(5, 2 * DefaultInterval))

\* C9: for an active drop point get_priority is factor * (now - base_time)
\* rounded to the nearest hundredth, base_time the most recent visit's time
\* or else the creation time: 0 at the base time, and exactly 1.0 a 7200 s
\* interval after it with B = 1 and no unresolved report.
C9_DwellScaling ==
    ( ret.op = "get_priority" /\ removed = <<>> )
    => /\ \E f \in Factors :
             2 * Abs(ret.val * f.den - 100 * f.num * (ret.at - BaseTime))
             <= f.den
       /\ ret.at = BaseTime => ret.val = 0
       /\ ( /\ Unresolved = {}
             /\ config.DEFAULT_VISIT_PRIORITY = 1
             /\ 60 * config.BASE_VISIT_INTERVAL = 7200
             /\ ret.at = BaseTime + 7200 )
          => ret.val = 100

\* No unresolved report, B = 1, and the priority asked for 7200 s after the
\* last visit of a drop point created later than that visit's time.
C9_Witness ==
    /\ ret.op = "get_priority" /\ ret.val = 100
    /\ removed = <<>>
    /\ visits # EmptyBag /\ time # MaxVisitTime
    /\ Unresolved = {} /\ reports # EmptyBag
    /\ ret.at = BaseTime + 7200

----------------------------------------------------------------------------
(* The lifecycle. *)

\* C10: a removed time, once set, never changes; remove() on a removed drop
\* point fails with RuntimeError and changes nothing; a remove() failing on
\* its time argument leaves removed unset.
C10_RemovalPermanent ==
    [][ /\ removed # <<>> => removed' = removed
        /\ ( ret' # ret /\ ret'.op = "remove" /\ removed # <<>> )
           => /\ ret'.val = "RuntimeError"
              /\ UNCHANGED <<now, config, time, removed, reports, visits, locations, db>>
        /\ ( ret' # ret /\ ret'.op = "remove"
              /\ ret'.val \in {"TypeError", "ValueError"} )
           => /\ removed = <<>> /\ removed' = <<>>
              /\ UNCHANGED <<now, config, time, reports, visits, locations, db>> ]_vars

\* remove() has failed on a drop point removed earlier, with a report
\* recorded after the removal.
C10_Witness ==
    /\ ret = Result("remove", "RuntimeError")
    /\ removed # <<>> /\ removed[1] < now
    /\ \E r \in BagToSet(reports) : r.time > removed[1]

\* C11: a removed drop point's removal time is not earlier than its creation
\* time and not later than the time at which remove() was called: remove()
\* rejects a time before the creation time or in the future.
C11_RemovalTimeValid ==
    removed # <<>> => time <= removed[1] /\ removed[1] <= now

\* The visits with the emptying action that are later than every report (a
\* report of the same instant as the visit is neither before nor after it, so
\* such visits are left out).
UnfollowedEmptyings ==
    {v \in BagToSet(visits) :
        /\ v.action = EMPTY_ACTION
        /\ \A r \in BagToSet(reports) : r.time < v.time}

\* C18: emptying always resets to clean. When a visit with the emptying
\* action is later than every report, get_last_state returns the serviced
\* state, also without any report and with later non-emptying visits; and
\* without any report the default state is returned only when no visit with
\* the emptying action has been recorded.
C18_EmptyingResets ==
    ret.op = "get_last_state"
    => /\ UnfollowedEmptyings # {} => ret.val = SERVICED
       /\ (reports = EmptyBag /\ ret.val = DEFAULT)
          => \A v \in BagToSet(visits) : v.action # EMPTY_ACTION

\* a < b and a <= b of rationals with positive denominators.
RatLt(a, b) == a.num * b.den < b.num * a.den

RatLeq(a, b) == a.num * b.den <= b.num * a.den

\* The lists get_new_reports can return in this state.
Rankings == UNION {get_new_reports(lv) : lv \in get_last_visit}

\* W: the largest weight in the list nr.
MaxWeight(nr) == Max({get_weight(nr[k]) : k \in 1..Len(nr)})

\* What the reports behind the newest one of nr contributed to the numerator
\* of the factor f: f * visit_interval_seconds - B - weight_0.
OlderPart(f, nr) ==
    Rat(f.num * get_visit_interval
        - (config.DEFAULT_VISIT_PRIORITY + get_weight(nr[1])) * f.den,
        f.den)

LaterThanAll(v) ==
    /\ \A r \in BagToSet(reports) : r.time < v.time
    /\ \A w \in BagToSet(visits) : w.time < v.time

\* The backlog counts as resolved by the visit v: no new report, and the
\* priority restarts at the time of v.
BacklogResolved(v) ==
    \A lv \in get_last_visit :
       /\ get_new_report_count(lv) = 0
       /\ get_new_reports(lv) = {<<>>}
       /\ get_priority_base_time(lv) = v.time

\* The factor is DEFAULT_VISIT_PRIORITY / visit_interval_seconds.
FactorIsDefault ==
    \A lv \in get_last_visit :
       \A nr \in get_new_reports(lv) :
          RatEq(get_priority_factor(nr),
                Rat(config.DEFAULT_VISIT_PRIORITY, get_visit_interval))

\* get_last_state still returns the state of a most recent report.
StateStillReported ==
    \A lr \in get_last_report :
       \A lv \in get_last_visit : get_last_state(lr, lv) \in LastReportStates

\* C20 as stated: right after a visit later than every report and every
\* earlier visit is appended, get_new_report_count is 0, get_priority_factor
\* is DEFAULT_VISIT_PRIORITY / visit_interval_seconds and
\* get_priority_base_time is the visit's time; when the visit has a
\* non-emptying action, get_last_state still returns the last reported state.
C20_AnyVisitResolves ==
    [][ \A v \in BagToSet(visits') :
           ( visits' = visits (+) SetToBag({v}) /\ LaterThanAll(v) )
           => /\ BacklogResolved(v)'
              /\ FactorIsDefault'
              /\ ( v.action # EMPTY_ACTION /\ reports # EmptyBag )
                 => StateStillReported' ]_vars

\* C20 (amended): the factor is the default one when the drop point is not
\* removed (for a removed one it is 0), and get_last_state still returns the
\* last reported state when the visit has a non-emptying action and no
\* earlier visit later than the last report has the emptying action.
C20_VisitResolvesBacklog ==
    [][ \A v \in BagToSet(visits') :
           ( visits' = visits (+) SetToBag({v}) /\ LaterThanAll(v) )
           => /\ BacklogResolved(v)'
              /\ removed = <<>> => FactorIsDefault'
              /\ removed # <<>>
                 => \A nr \in Rankings' : get_priority_factor(nr)'.num = 0
              /\ ( /\ v.action # EMPTY_ACTION
                   /\ reports # EmptyBag
                   /\ \A w \in BagToSet(visits) :
                         w.action = EMPTY_ACTION => w.time <= MaxReportTime )
                 => StateStillReported' ]_vars

\* A single non-emptying visit later than the two reports recorded, on an
\* active drop point: the factor read after it is B / 7200 with B = 1.
C20_Witness ==
    /\ ret.op = "get_priority_factor" /\ removed = <<>>
    /\ config.DEFAULT_VISIT_PRIORITY = 1
    /\ BagCardinality(reports) = 2
    /\ visits = SetToBag({Visit("NO_ACTION", DefaultInterval + 1)})
    /\ \A r \in BagToSet(reports) : r.time < DefaultInterval + 1
    /\ RatEq(ret.val, Rat(1, DefaultInterval))

\* C12: with BASE_VISIT_INTERVAL <= 0, computing the priority of an active
\* drop point is rejected with an error: neither get_priority_factor nor
\* get_priority returns a number.
C12_NonPositiveIntervalRejected ==
    ( /\ config.BASE_VISIT_INTERVAL <= 0
      /\ removed = <<>>
      /\ ret.op \in {"get_priority_factor", "get_priority"} )
    => "exc" \in DOMAIN ret

----------------------------------------------------------------------------
(* The history projection. *)

\* The positions of the list h that hold the row of the given kind.
EntriesOf(h, kind, row) ==
    {i \in 1..Len(h) : h[i].kind = kind /\ h[i].row = row}

\* The positions of the list h that hold an entry of the given kind.
EntriesOfKind(h, kind) == {i \in 1..Len(h) : h[i].kind = kind}

\* The list h has one entry for every row of the relationship, each with the
\* row's time, and no other entry of the kind.
Projects(h, kind, rows) ==
    /\ \A r \in BagToSet(rows) :
          Cardinality(EntriesOf(h, kind, r)) = CopiesIn(r, rows)
    /\ \A i \in EntriesOfKind(h, kind) :
          BagIn(h[i].row, rows) /\ h[i].time = h[i].row.time
    /\ Cardinality(EntriesOfKind(h, kind)) = BagCardinality(rows)

\* What get_history returned is the projection of the drop point's records.
HistoryProjected ==
    ret.op = "get_history"
    => LET h == ret.val
       IN  /\ \A i \in 1..(Len(h) - 1) : h[i].time >= h[i + 1].time
           /\ Projects(h, "visit", visits)
           /\ Projects(h, "report", reports)
           /\ Projects(h, "location", locations)
           /\ Cardinality(EntriesOfKind(h, "drop_point")) = 1
           /\ \A i \in EntriesOfKind(h, "drop_point") : h[i].time = time
           /\ Cardinality(EntriesOfKind(h, "removed"))
              = IF removed # <<>> THEN 1 ELSE 0
           /\ \A i \in EntriesOfKind(h, "removed") : h[i].time = removed[1]
           /\ Len(h) = BagCardinality(visits) + BagCardinality(reports)
                       + BagCardinality(locations) + 1
                       + IF removed # <<>> THEN 1 ELSE 0

\* C15: get_history returns a list sorted by time in non-increasing order
\* with exactly one entry for every visit, report and location, exactly one
\* creation entry carrying the creation time, and exactly one removal entry
\* if and only if the drop point is removed; the call that returns it changes
\* none of the histories.
C15_HistoryProjection ==
    /\ []HistoryProjected
    /\ [][ ( ret' # ret /\ ret'.op = "get_history" )
           => UNCHANGED <<time, removed, reports, visits, locations>> ]_vars

\* The history of a removed drop point with a report, a visit and a second
\* location: six entries.
C15_Witness ==
    /\ ret.op = "get_history" /\ Len(ret.val) = 6
    /\ removed # <<>>
    /\ BagCardinality(reports) = 1 /\ BagCardinality(visits) = 1
    /\ BagCardinality(locations) = 2
    /\ ret.val[1].time > ret.val[6].time

\* The place of a kind of entry in the order get_history collects them in.
KindRank(kind) ==
    CASE kind = "visit" -> 1
      [] kind = "report" -> 2
      [] kind = "location" -> 3
      [] kind = "drop_point" -> 4
      [] kind = "removed" -> 5

\* The times and kinds of the entries of the list h, in order.
Shape(h) == [i \in 1..Len(h) |-> <<h[i].time, h[i].kind>>]

\* The lists get_history can return in this state.
Histories ==
    UNION {UNION {{get_history(vs, rs, ls) : ls \in OrderByTimeAsc(locations)}
                  : rs \in AllOrders(reports)}
           : vs \in AllOrders(visits)}

\* C16: entries of different kinds and equal time come in the order visit,
\* report, location, creation, removal, so every call of get_history on the
\* same history returns the kinds and times in the same order.
C16_TieBreak ==
    ret.op = "get_history"
    => /\ \A i, j \in 1..Len(ret.val) :
             ( /\ i < j
               /\ ret.val[i].time = ret.val[j].time
               /\ ret.val[i].kind # ret.val[j].kind )
             => KindRank(ret.val[i].kind) < KindRank(ret.val[j].kind)
       /\ \A h \in Histories : Shape(h) = Shape(ret.val)

\* A visit, a report, the initial location, the creation and the removal all
\* at the same instant.
C16_Witness ==
    /\ ret.op = "get_history"
    /\ [i \in 1..Len(ret.val) |-> ret.val[i].kind]
       = <<"visit", "report", "location", "drop_point", "removed">>
    /\ \A i \in 1..Len(ret.val) : ret.val[i].time = time

----------------------------------------------------------------------------
(* The table of drop points: numbering, creation, dashboard counts. *)

\* The stored drop points, removed ones included, have distinct numbers >= 1.
StoredNumbersDistinct ==
    /\ \A row \in db : row.number >= 1
    /\ \A r1, r2 \in db : r1.number = r2.number => r1 = r2

\* get_next_free_number returned 1 for an empty table and else a number
\* greater than every stored one.
NextFreeNumberFresh ==
    ret.op = "get_next_free_number"
    => /\ db = {} => ret.val = 1
       /\ \A row \in db : ret.val > row.number

\* A step keeps every stored drop point under its number.
NumbersKept ==
    \A row \in db :
       \E kept \in db' : kept.number = row.number /\ kept.time = row.time

\* A call of DropPoint() that returns has stored a drop point under a number
\* that no stored drop point had, removed or not: with the number of a stored
\* one the creation fails.
DuplicateRejected ==
    ( ret'.op = "DropPoint" /\ "val" \in DOMAIN ret' /\ now' = now )
    => \E row \in db' \ db : \A old \in db : old.number # row.number

\* The numbers in the table and the number last handed out.
NumbersFresh == StoredNumbersDistinct /\ NextFreeNumberFresh

\* C13: drop point numbers are positive, unique and never reassigned. All
\* stored drop points, active and removed, have distinct numbers >= 1;
\* creating one with the number of a stored drop point fails, also when that
\* one is removed; get_next_free_number returns 1 for an empty table and else
\* a number greater than every stored one, removed ones included.
C13_NumbersUnique ==
    /\ []NumbersFresh
    /\ [][NumbersKept /\ DuplicateRejected]_vars

\* Both numbers are taken by removed drop points, and a creation has just
\* failed because its number exists.
C13_Witness ==
    /\ Cardinality(db) = MaxNumber
    /\ \A row \in db : row.removed # <<>>
    /\ ret = Failed("DropPoint", "ValueError",
                    <<Err("number", "That drop point already exists.")>>)

\* The fields in which creating a drop point with these arguments has a
\* problem.
ProblemFields(number, arg, loc) ==
    (IF \/ number.kind # "int"
        \/ number.n < 1
        \/ \E row \in db : row.number = number.n
     THEN {"number"} ELSE {})
    \cup (IF \/ Truthy(arg) /\ ~isinstance_datetime(arg)
             \/ isinstance_datetime(arg) /\ arg.t > now
          THEN {"DropPoint"} ELSE {})
    \cup (IF loc # "valid" THEN {"lat"} ELSE {})

\* The step reports every problem of the creation in one ValueError and
\* stores nothing, or stores the drop point when there is no problem.
ReportedAtOnce(number, arg, loc) ==
    IF ProblemFields(number, arg, loc) = {}
    THEN /\ "val" \in DOMAIN ret' /\ ret'.val = "None"
         /\ \E row \in db' : row.number = number.n /\ row \notin db
         /\ db \subseteq db'
    ELSE /\ db' = db
         /\ "exc" \in DOMAIN ret' /\ ret'.exc = "ValueError"
         /\ {ret'.args[i].field : i \in 1..Len(ret'.args)}
            = ProblemFields(number, arg, loc)

\* C14: creation reports all validation problems at once and is all or
\* nothing, through the constructor and through the view create_dp: with
\* problems, one ValueError carries an entry for every field with a problem
\* and nothing is stored; the drop point is stored only without a problem.
C14_CreationBatch ==
    [][ \A number \in NumberArgs, loc \in LocationArgs :
           /\ \A arg \in TimeArgs :
                 DropPoint(number, arg, loc)
                 => ReportedAtOnce(number, arg, loc)
           /\ create_dp(number, loc)
              => ReportedAtOnce(number, [kind |-> "None", t |-> 0], loc) ]_vars

\* The sum of the counts over the given states.
RECURSIVE SumOver(_, _)
SumOver(counts, S) ==
    IF S = {} THEN 0
    ELSE LET s == CHOOSE x \in S : TRUE
         IN  counts[s] + SumOver(counts, S \ {s})

\* The status the resolver gives a stored drop point: no report and no visit
\* is recorded for it.
ResolvedStatus(row) == get_last_state(<<>>, <<>>)

\* C17: drop_points_by_state maps every status to the number of drop points
\* that are not removed and resolve to that status, so the counts sum to
\* drop_point_count.
C17_CountsByState ==
    ret.op = "drop_points_by_state"
    => /\ \A state \in Range(states) :
             ret.val[state]
             = Cardinality({row \in db : /\ row.removed = <<>>
                                         /\ ResolvedStatus(row) = state})
       /\ SumOver(ret.val, Range(states)) = drop_point_count

----------------------------------------------------------------------------
(* Status and backlog. *)

\* What the last call returned names a most recent report as unresolved:
\* get_new_reports starts with one, get_new_report_count is at least 1, and
\* get_last_state returns the state of one.
CurrentReportUnresolved ==
    /\ ret.op = "get_new_reports"
       => Len(ret.val) >= 1 /\ ret.val[1].time = MaxReportTime
    /\ ret.op = "get_new_report_count" => ret.val >= 1
    /\ ret.op = "get_last_state" => ret.val \in LastReportStates

\* C21 as stated: whenever a report exists and no visit is strictly later
\* than the most recent report, a visit of the very time of that report
\* included, get_last_state returns that report's state, the most recent
\* report is the first element of get_new_reports and get_new_report_count
\* is at least 1.
C21_StatusBacklogAgree ==
    ( /\ reports # EmptyBag
      /\ \A v \in BagToSet(visits) : ~(v.time > MaxReportTime) )
    => CurrentReportUnresolved

\* C21 (amended): the same when every visit is strictly earlier than the most
\* recent report. When the most recent visit has the very time of the most
\* recent report, get_last_state still returns that report's state, but
\* get_new_reports is empty and get_new_report_count is 0.
C21_StatusBacklogStrict ==
    reports # EmptyBag
    => /\ (\A v \in BagToSet(visits) : v.time < MaxReportTime)
          => CurrentReportUnresolved
       /\ (visits # EmptyBag /\ MaxVisitTime = MaxReportTime)
          => /\ ret.op = "get_new_reports" => ret.val = <<>>
             /\ ret.op = "get_new_report_count" => ret.val = 0
             /\ ret.op = "get_last_state" => ret.val \in LastReportStates

\* A visit at 0 and reports at 0 and at 7200: get_new_reports returned the
\* report of 7200 alone, the one get_last_state takes the state from.
C21_Witness ==
    /\ ret.op = "get_new_reports"
    /\ BagCardinality(visits) = 1 /\ MaxVisitTime = 0
    /\ BagCardinality(reports) = 2
    /\ \E r \in BagToSet(reports) : r.time = 0
    /\ Len(ret.val) = 1 /\ ret.val[1].time = DefaultInterval

====
